---- MODULE Spec2Model ----
(***************************************************************************)
(* A model of neurowriter/model.py: the Model class with its training loop *)
(* (fit, eval), its autoregressive generator (generate) and its            *)
(* persistence (save, load).                                               *)
(*                                                                         *)
(* The transformer is opaque: a scorer object is a record of its weights   *)
(* (identified by the number of optimizer updates applied to them), its    *)
(* train/eval mode flag and the number of batches whose gradients are      *)
(* accumulated in it.  Scorer objects live in a heap and are held by       *)
(* reference, as Python holds them, so that copy.deepcopy differs from an  *)
(* alias.  The validation loss is a function of the weights chosen by the  *)
(* environment; sampling (torch.multinomial) is a nondeterministic choice  *)
(* of a label index.                                                       *)
(***************************************************************************)
EXTENDS Integers, Sequences, FiniteSets, TLC

(***************************************************************************)
(* Bounds of the model.                                                    *)
(***************************************************************************)
MaxEpochs == 3
MaxPatience == 2
MaxCheckpointEpochs == 3
MaxBatches == 3
MaxValBatches == 2
MaxLoss == 2
MaxLength == 2
MaxSampleLength == 1
MaxSeedLen == 3
MaxContext == 2

(***************************************************************************)
(* Program constants.                                                      *)
(***************************************************************************)
None == -1
END == 0
DEFAULT_MAXLENGTH == 100
DEFAULT_TEMPERATURE == 1
Inf == MaxLoss + 1

Min(a, b) == IF a < b THEN a ELSE b

\* The arguments of fit and the datasets it is called with.
AccumulationSteps == {1, 2}
FitArgs ==
    [maxepochs : 0..MaxEpochs,
     patience : 0..MaxPatience,
     checkpointepochs : {None} \cup (1..MaxCheckpointEpochs),
     gradient_accumulation_steps : AccumulationSteps]
Datasets ==
    [lentrainbatches : 0..MaxBatches,
     lenvalbatches : 0..MaxValBatches,
     uniquetokens : {<<1, END>>},
     tokensperpattern : {1}]
NoArgs ==
    [maxepochs |-> None, patience |-> None, checkpointepochs |-> None,
     gradient_accumulation_steps |-> None]
NoDataset ==
    [lentrainbatches |-> None, lenvalbatches |-> None,
     uniquetokens |-> <<>>, tokensperpattern |-> None]
NoGenArgs == [seed |-> <<>>, maxlength |-> None, temperature |-> None]
NoModel == [weights |-> None, labels |-> <<>>, contextsize |-> None]

\* The sequences over S of length at most n.
SeqsUpTo(S, n) == UNION {[1..k -> S] : k \in 0..n}

\* The arguments generate is called with by a user: the seed is given as
\* tokenizer.encodetext returns it.
SeedTokens == {1, 2}
Temperatures == {-1, 0, 1, 2}
GenArgs ==
    [seed : SeqsUpTo(SeedTokens, MaxSeedLen),
     maxlength : 0..MaxLength,
     temperature : Temperatures]

\* The folders a model is loaded from: as save wrote them after a training
\* on some vocabulary (with or without the END token in it) and context size.
LabelSets == {<<1, END>>, <<1, 2>>, <<2, END, 1>>}
SavedFolders ==
    [weights : {1}, labels : LabelSets, contextsize : 1..MaxContext, complete : {TRUE}]

\* The values a validation loss takes: finite ones and math.inf (an
\* overflowed loss; a NaN loss compares like it at line 116).
LossValues == (1..MaxLoss) \cup {Inf}

VARIABLES
    model,            \* self.model: None or a reference into heap
    labels,           \* self.labels
    contextsize,      \* self.contextsize
    heap,             \* the scorer objects: reference -> [weights, training, grads]
    disk,             \* the folders written: folder -> what save left in it
    pc,               \* where fit is: idle, train, eval, sample, finish, returned, failed
    err,              \* the exception that ended fit or generate, or "none"
    args,             \* the arguments of the running fit
    dataset,          \* the dataset of the running fit
    epoch,            \* fit's epoch
    step,             \* fit's step (the batch about to be processed)
    global_step,      \* fit's global_step
    best_eval_loss,   \* fit's best_eval_loss
    no_improvement,   \* fit's no_improvement
    best_model,       \* fit's best_model: None or a reference into heap
    eval_loss,        \* fit's eval_loss of the current epoch
    nb_eval_steps,    \* eval's nb_eval_steps
    hist,             \* history: per evaluated epoch, its eval_loss and weights
    stopped,          \* history: whether the early-stopping break was taken
    gpc,              \* where generate is: idle, loop, returned, failed
    caller,           \* who called generate: "fit", "user" or "none"
    gargs,            \* the arguments of the running generate
    tokenized_context,\* generate's tokenized_context
    generated,        \* generate's generated
    gen_i,            \* generate's loop index
    sampled,          \* history: the tokens sampled by generate, in order
    scheduler,        \* fit's scheduler: the number of its steps
    origin,           \* how the Model was built: "new", "fit" or "load"
    saved             \* history: the Model a user last called save on

modelvars == <<model, labels, contextsize, heap, disk>>
fitvars == <<pc, args, dataset, epoch, step, global_step, best_eval_loss,
             no_improvement, best_model, eval_loss, nb_eval_steps, hist, stopped>>
genvars == <<gpc, caller, gargs, tokenized_context, generated, gen_i, sampled>>
morevars == <<scheduler, origin, saved>>
vars == <<modelvars, fitvars, genvars, err, morevars>>

(***************************************************************************)
(* Model.__init__ , and the locals of fit and generate before any call.    *)
(***************************************************************************)
FitIdle ==
    /\ pc = "idle"
    /\ args = NoArgs
    /\ dataset = NoDataset
    /\ epoch = 0
    /\ step = 0
    /\ global_step = 0
    /\ best_eval_loss = Inf
    /\ no_improvement = 0
    /\ best_model = None
    /\ eval_loss = Inf
    /\ nb_eval_steps = 0
    /\ hist = <<>>
    /\ stopped = FALSE

GenIdle ==
    /\ gpc = "idle"
    /\ caller = "none"
    /\ gargs = NoGenArgs
    /\ tokenized_context = <<>>
    /\ generated = <<>>
    /\ gen_i = 0
    /\ sampled = <<>>

Init ==
    /\ model = None
    /\ labels = <<>>
    /\ contextsize = None
    /\ heap = <<>>
    /\ disk = <<>>
    /\ err = "none"
    /\ scheduler = 0
    /\ origin = "new"
    /\ saved = NoModel
    /\ FitIdle
    /\ GenIdle

(***************************************************************************)
(* The heap of scorer objects.                                             *)
(***************************************************************************)
\* The reference of the scorer fit builds, and of the copy made in an epoch.
WorkingRef == 1
SnapshotRef(e) == e + 2

\* BertForSequenceClassification.from_pretrained: fresh weights, eval mode.
Pretrained(w) == [weights |-> w, training |-> FALSE, grads |-> 0]

\* h with object r set to o.
Store(h, r, o) == [x \in (DOMAIN h) \cup {r} |-> IF x = r THEN o ELSE h[x]]

\* h without the objects no reference in keep reaches.
Collect(h, keep) == [x \in (DOMAIN h) \cap keep |-> h[x]]

(***************************************************************************)
(* Model.save                                                              *)
(***************************************************************************)
BestDir == <<"best", 0>>
CheckDir(e) == <<"checkpoint", e>>
EmptyFolder == [weights |-> None, labels |-> <<>>, contextsize |-> None, complete |-> FALSE]

\* Whether save(folder) of scorer reference m raises: None has no save_pretrained.
SaveRaises(m) == m = None

\* Mutant: the metadata written holds the labels but not the context size.
SaveWithoutContextsize(d, folder, h, m, lbls, ctx) ==
    IF SaveRaises(m)
    THEN IF folder \in DOMAIN d THEN d ELSE Store(d, folder, EmptyFolder)
    ELSE Store(d, folder,
               [weights |-> h[m].weights, labels |-> lbls, contextsize |-> None,
                complete |-> TRUE])

\* The disk after save(folder): the folder is made first, then the weights
\* and the (labels, contextsize) metadata are written into it.
Save(d, folder, h, m, lbls, ctx) ==
    IF SaveRaises(m)
    THEN IF folder \in DOMAIN d THEN d ELSE Store(d, folder, EmptyFolder)
    ELSE Store(d, folder,
               [weights |-> h[m].weights, labels |-> lbls, contextsize |-> ctx,
                complete |-> TRUE])

(***************************************************************************)
(* Model.fit                                                               *)
(***************************************************************************)
\* Mutant: only the training split is checked.
InsufficientTrainData(ds) == ds.lentrainbatches = 0

\* Line 52: the dataset check.
InsufficientData(ds) == ds.lentrainbatches = 0 \/ ds.lenvalbatches = 0

\* Mutant: the update comes with the first batch of a group, not the last.
UpdateDueAtGroupStart(s, gas) == s % gas = 0

\* Line 95: whether the batch at index s ends an accumulation group.
UpdateDue(s, gas) == (s + 1) % gas = 0

\* Mutant: a loss equal to the best one counts as an improvement.
ImprovesOrEqual(l, best) == l <= best

\* Line 116: whether loss l improves on the best loss so far.
Improves(l, best) == l < best

\* Mutant: training stops one epoch late.
StopNowLate(ni, p) == ni > p

\* Line 122: whether training stops with ni epochs without improvement.
StopNow(ni, p) == ni >= p

\* Mutant: one epoch too many.
MoreEpochsInclusive(e, maxepochs) == e + 1 <= maxepochs

\* Line 81: whether range(maxepochs) has an epoch after epoch e.
MoreEpochs(e, maxepochs) == e + 1 < maxepochs

\* Mutant: the working scorer is kept.
RestoredWorking(best, working) == working

\* Line 132: the scorer that becomes the active one when the loop is left.
Restored(best, working) == best

\* Mutant: the checkpoints are counted from 1.
CheckpointDueFromOne(k, e) == k # None /\ (e + 1) % k = 0

\* Mutant: the first epoch is never checkpointed.
CheckpointDueAfterFirst(k, e) == k # None /\ e > 0 /\ e % k = 0

\* Line 127: whether epoch e is checkpointed.
CheckpointDue(k, e) == k # None /\ e % k = 0

\* scorer.train() / scorer.eval() on the object m refers to.
SetMode(h, m, t) == Store(h, m, [h[m] EXCEPT !.training = t])

\* Mutant: the scorer is left in the mode the last epoch left it in.
TrainModeMissing(h, m) == h

\* Line 83: self.model.train() at the start of an epoch.
TrainMode(h, m) == SetMode(h, m, TRUE)

\* Lines 87-99: one training batch through the scorer object o at index s:
\* backward adds to the gradients; every gas-th batch the optimizer steps
\* and the gradients are zeroed.
Trained(o, s, gas) ==
    IF UpdateDue(s, gas)
    THEN [o EXCEPT !.weights = o.weights + 1, !.grads = 0]
    ELSE [o EXCEPT !.grads = o.grads + 1]

\* Mutant: the best model is the working object itself, not a copy.
DeepCopyAlias(h, m, e) == [ref |-> m, heap |-> h]

\* Line 119: copy.deepcopy(self.model) in epoch e: a new object with the
\* contents of m. The result is the reference and the heap.
DeepCopy(h, m, e) ==
    [ref |-> SnapshotRef(e), heap |-> Store(h, SnapshotRef(e), h[m])]

\* The validation losses the scorer with weights w may have: the one it had
\* when evaluated before (eval is deterministic in the weights), else any.
LossesOf(w) ==
    IF \E i \in 1..Len(hist) : hist[i].weights = w
    THEN {hist[i].loss : i \in {j \in 1..Len(hist) : hist[j].weights = w}}
    ELSE LossValues

\* Mutant: the sampled token is compared with another special token.
IsEndMistaken(token) == token = END + 1

\* Lines 177 and 193: whether the sampled token is the END token.
IsEnd(token) == token = END

\* Mutant: one iteration too many.
MoreStepsInclusive(i, maxlength) == i + 1 <= maxlength

\* Line 179: whether range(maxlength) has an iteration after iteration i.
MoreSteps(i, maxlength) == i + 1 < maxlength

\* Mutant: the window drops the newest token, not the oldest.
SlideDroppingNewest(context, token, size) ==
    LET grown == Append(context, token)
    IN IF Len(grown) > size THEN SubSeq(grown, 1, Len(grown) - 1) ELSE grown

\* Lines 195-198: the context after the sampled token is appended to it.
Slide(context, token, size) ==
    LET grown == Append(context, token)
    IN IF Len(grown) > size THEN Tail(grown) ELSE grown

\* Lines 172-177 of generate, called by c with arguments ga on the heap h:
\* the new values of generate's variables.
GenEnter(c, ga) ==
    /\ caller' = c
    /\ gargs' = ga
    /\ tokenized_context' = ga.seed
    /\ generated' = <<>>
    /\ gen_i' = 0
    /\ sampled' = <<>>
    /\ gpc' = IF MoreSteps(-1, ga.maxlength) THEN "loop" ELSE "returned"

\* generate's locals are dropped when it has returned to fit.
GenLeave ==
    /\ gpc' = "idle"
    /\ caller' = "none"
    /\ gargs' = NoGenArgs
    /\ tokenized_context' = <<>>
    /\ generated' = <<>>
    /\ gen_i' = 0
    /\ sampled' = <<>>

\* Mutant: the sample is asked for with a temperature of 0.
SampleArgsZeroTemperature ==
    [seed |-> <<>>, maxlength |-> Min(DEFAULT_MAXLENGTH, MaxSampleLength), temperature |-> 0]

\* Lines 112 and 163: the arguments of the sample generation of an epoch: no
\* seed, and the defaults of generate.
SampleArgs ==
    [seed |-> <<>>, maxlength |-> Min(DEFAULT_MAXLENGTH, MaxSampleLength),
     temperature |-> DEFAULT_TEMPERATURE]

\* Lines 48-84: the call of fit up to the first batch of the first epoch.
FitCall ==
    /\ pc = "idle"
    /\ \E a \in FitArgs, ds \in Datasets :
        /\ args' = a
        /\ dataset' = ds
        /\ IF InsufficientData(ds)
           THEN /\ pc' = "failed"
                /\ err' = "ValueError"
                /\ UNCHANGED <<model, labels, contextsize, heap, origin>>
           ELSE /\ labels' = ds.uniquetokens
                /\ origin' = "fit"
                /\ contextsize' = ds.tokensperpattern
                /\ model' = WorkingRef
                /\ heap' = IF MoreEpochs(-1, a.maxepochs)
                           THEN TrainMode(Store(heap, WorkingRef, Pretrained(0)),
                                          WorkingRef)
                           ELSE Store(heap, WorkingRef, Pretrained(0))
                /\ pc' = IF MoreEpochs(-1, a.maxepochs) THEN "train" ELSE "finish"
                /\ err' = err
    /\ global_step' = 0
    /\ best_eval_loss' = Inf
    /\ no_improvement' = 0
    /\ best_model' = None
    /\ epoch' = 0
    /\ step' = 0
    /\ scheduler' = 0
    /\ UNCHANGED <<disk, eval_loss, nb_eval_steps, hist, stopped, genvars, saved>>

\* Lines 85-99, and 101-103 with 141-143 after the last batch: one training
\* batch; after the last one of the epoch eval puts the scorer in eval mode.
TrainBatch ==
    /\ pc = "train"
    /\ LET last == step + 1 >= dataset.lentrainbatches
           o == Trained(heap[model], step, args.gradient_accumulation_steps)
       IN /\ heap' = Store(heap, model, [o EXCEPT !.training = ~last])
          /\ scheduler' = IF UpdateDue(step, args.gradient_accumulation_steps)
                          THEN scheduler + 1 ELSE scheduler
          /\ global_step' = IF UpdateDue(step, args.gradient_accumulation_steps)
                            THEN global_step + 1 ELSE global_step
          /\ step' = step + 1
          /\ pc' = IF last THEN "eval" ELSE "train"
          /\ nb_eval_steps' = IF last THEN 0 ELSE nb_eval_steps
    /\ UNCHANGED <<model, labels, contextsize, disk, err, args, dataset, epoch,
                   best_eval_loss, no_improvement, best_model, eval_loss, hist,
                   stopped, genvars, origin, saved>>

\* Lines 145-151, and 103-112 with 172-177 after the last batch: one
\* validation batch; after the last one the mean loss is the epoch's
\* eval_loss and the sample generation is called.
EvalBatch ==
    /\ pc = "eval"
    /\ nb_eval_steps' = nb_eval_steps + 1
    /\ IF nb_eval_steps + 1 < dataset.lenvalbatches
       THEN UNCHANGED <<pc, eval_loss, hist, heap, genvars>>
       ELSE /\ \E l \in LossesOf(heap[model].weights) :
                /\ eval_loss' = l
                /\ hist' = Append(hist, [loss |-> l, weights |-> heap[model].weights])
            /\ pc' = "sample"
            /\ heap' = SetMode(heap, model, FALSE)
            /\ GenEnter("fit", SampleArgs)
    /\ UNCHANGED <<model, labels, contextsize, disk, err, args, dataset, epoch, step,
                   global_step, best_eval_loss, no_improvement, best_model, stopped,
                   morevars>>

\* Lines 179-199: one iteration of generate's loop.
GenStep ==
    /\ gpc = "loop"
    /\ IF gargs.temperature = 0
       THEN \* line 190: multinomial over a NaN distribution raises
            /\ gpc' = "failed"
            /\ err' = "RuntimeError"
            /\ pc' = IF caller = "fit" THEN "failed" ELSE pc
            /\ UNCHANGED <<tokenized_context, generated, gen_i, sampled>>
       ELSE /\ \E predicted_index \in 1..Len(labels) :
                LET token == labels[predicted_index]
                IN /\ sampled' = Append(sampled, token)
                   /\ IF IsEnd(token)
                      THEN /\ gpc' = "returned"
                           /\ UNCHANGED <<tokenized_context, generated, gen_i>>
                      ELSE /\ generated' = Append(generated, token)
                           /\ tokenized_context' =
                                  Slide(tokenized_context, token, contextsize)
                           /\ gen_i' = gen_i + 1
                           /\ gpc' = IF MoreSteps(gen_i, gargs.maxlength)
                                     THEN "loop" ELSE "returned"
            /\ UNCHANGED <<pc, err>>
    /\ UNCHANGED <<modelvars, args, dataset, epoch, step, global_step, best_eval_loss,
                   no_improvement, best_model, eval_loss, nb_eval_steps, hist, stopped,
                   caller, gargs, morevars>>

\* Lines 113-129, and 81-84 of the next epoch: the sample is logged, early
\* stopping is decided, the checkpoint is saved and the next epoch begins.
EpochEnd ==
    /\ pc = "sample"
    /\ gpc = "returned"
    /\ LET improved == Improves(eval_loss, best_eval_loss)
           copy == DeepCopy(heap, model, epoch)
           best == IF improved THEN copy.ref ELSE best_model
           h == IF improved THEN Collect(copy.heap, {model, copy.ref}) ELSE heap
           ni == IF improved THEN 0 ELSE no_improvement + 1
           more == MoreEpochs(epoch, args.maxepochs)
       IN /\ best_eval_loss' = IF improved THEN eval_loss ELSE best_eval_loss
          /\ no_improvement' = ni
          /\ best_model' = best
          /\ IF StopNow(ni, args.patience)
             THEN /\ stopped' = TRUE
                  /\ pc' = "finish"
                  /\ heap' = h
                  /\ UNCHANGED <<disk, epoch, step>>
             ELSE /\ stopped' = stopped
                  /\ disk' = IF CheckpointDue(args.checkpointepochs, epoch)
                             THEN Save(disk, CheckDir(epoch), h, model, labels, contextsize)
                             ELSE disk
                  /\ pc' = IF more THEN "train" ELSE "finish"
                  /\ epoch' = IF more THEN epoch + 1 ELSE epoch
                  /\ step' = IF more THEN 0 ELSE step
                  /\ heap' = IF more THEN TrainMode(h, model) ELSE h
    /\ GenLeave
    /\ UNCHANGED <<model, labels, contextsize, err, args, dataset, global_step,
                   eval_loss, nb_eval_steps, hist, morevars>>

\* Lines 131-136: the best model becomes the active one and is saved.
FitFinish ==
    /\ pc = "finish"
    /\ model' = Restored(best_model, model)
    /\ heap' = Collect(heap, {model', best_model})
    /\ disk' = Save(disk, BestDir, heap, model', labels, contextsize)
    /\ IF SaveRaises(model')
       THEN pc' = "failed" /\ err' = "AttributeError"
       ELSE pc' = "returned" /\ err' = err
    /\ UNCHANGED <<labels, contextsize, args, dataset, epoch, step, global_step,
                   best_eval_loss, no_improvement, best_model, eval_loss,
                   nb_eval_steps, hist, stopped, genvars, morevars>>


(***************************************************************************)
(* What the history says, computed apart from fit's own bookkeeping.       *)
(***************************************************************************)
Losses(h) == {h[i].loss : i \in 1..Len(h)}
Least(S) == CHOOSE x \in S : \A y \in S : x <= y

\* The epoch (counted from 1, as hist is indexed) with the least loss of h,
\* the earliest one on ties.
BestEpoch(h) ==
    CHOOSE i \in 1..Len(h) :
        /\ h[i].loss = Least(Losses(h))
        /\ \A j \in 1..(i - 1) : h[j].loss > h[i].loss

\* The best loss seen before epoch i of h: math.inf before any.
BestBefore(h, i) == Least({Inf} \cup {h[j].loss : j \in 1..(i - 1)})

\* Whether epoch i of h is not strictly below the best loss before it.
NonImproving(h, i) == h[i].loss >= BestBefore(h, i)

\* The number of epochs at the end of h that are all non-improving.
RECURSIVE Stagnation(_)
Stagnation(h) ==
    IF h = <<>> \/ ~NonImproving(h, Len(h))
    THEN 0
    ELSE 1 + Stagnation(SubSeq(h, 1, Len(h) - 1))

\* The validation loss of the scorer with weights w, as an epoch measured it.
LossOfWeights(w) == Least({hist[i].loss : i \in {j \in 1..Len(hist) : hist[j].weights = w}})

\* The epochs with a checkpoint folder on the disk.
Checkpointed == {e \in 0..MaxEpochs + 1 : CheckDir(e) \in DOMAIN disk}

\* fit is over: it returned or it raised.
FitOver == pc \in {"returned", "failed"}

(***************************************************************************)
(* Claims about fit                                                        *)
(***************************************************************************)
\* C1: whenever fit returns, the active scorer holds the weights of the end
\* of the epoch with the least validation loss among the epochs run (the
\* earliest on ties, whatever was trained afterwards), and these weights,
\* with labels and contextsize, are what the 'best' folder holds.
C1_BestRestoredAndSaved ==
    pc = "returned" =>
        /\ hist # <<>>
        /\ model \in DOMAIN heap
        /\ heap[model].weights = hist[BestEpoch(hist)].weights
        /\ BestDir \in DOMAIN disk
        /\ disk[BestDir] = [weights |-> hist[BestEpoch(hist)].weights,
                            labels |-> labels, contextsize |-> contextsize,
                            complete |-> TRUE]

\* fit returned after three epochs of which the second was the best, tied by
\* the third, and the third went on training the scorer.
C1_Witness ==
    /\ pc = "returned"
    /\ Len(hist) = 3
    /\ hist[1].loss > hist[2].loss
    /\ hist[3].loss = hist[2].loss
    /\ hist[3].weights > hist[2].weights
    /\ heap[model].weights = hist[2].weights

\* C2: for patience >= 1, an epoch whose loss is not strictly below the best
\* before it is non-improving; a further epoch is only run while fewer than
\* patience such epochs end the history, fit stops at the epoch where they
\* are exactly patience, and once stopped runs no batch, evaluation or epoch.
C2_StopsAtExactEpoch ==
    (pc # "idle" /\ args.patience >= 1) =>
        /\ pc \in {"train", "eval"} => Stagnation(hist) < args.patience
        /\ pc = "sample" => Stagnation(hist) <= args.patience
        /\ no_improvement = (IF pc = "sample" /\ hist # <<>>
                             THEN Stagnation(SubSeq(hist, 1, Len(hist) - 1))
                             ELSE Stagnation(hist))
        /\ stopped => /\ Stagnation(hist) = args.patience
                      /\ FitOver \/ pc = "finish"
                      /\ Len(hist) = epoch + 1
        /\ (~stopped /\ (FitOver \/ pc = "finish")) => Stagnation(hist) < args.patience

\* fit stopped at the second of three allowed epochs, after an epoch whose
\* loss equalled the best one and an epoch with a worse one.
C2_Witness ==
    /\ stopped
    /\ args.patience = 2
    /\ args.maxepochs = 3
    /\ epoch = 2
    /\ hist[1].loss < Inf
    /\ hist[2].loss = hist[1].loss
    /\ hist[3].loss > hist[1].loss

C4_BestNoWorseThanCheckpoints ==
    pc = "returned" =>
        \A e \in Checkpointed :
            LossOfWeights(disk[BestDir].weights)
                <= LossOfWeights(disk[CheckDir(e)].weights)

\* fit returned with two checkpoints of different losses, one of them worse
\* than the best model and written after the best epoch.
C4_Witness ==
    /\ pc = "returned"
    /\ {0, 1} \subseteq Checkpointed
    /\ LossOfWeights(disk[BestDir].weights) = LossOfWeights(disk[CheckDir(0)].weights)
    /\ LossOfWeights(disk[BestDir].weights) < LossOfWeights(disk[CheckDir(1)].weights)

\* C5 as claimed: on a dataset with a training and a validation batch fit
\* never ends without returning the model.
C5_AlwaysReturnsModel ==
    (pc = "failed") => (dataset.lentrainbatches = 0 \/ dataset.lenvalbatches = 0)

\* C5 amended: on a dataset with a training and a validation batch fit runs
\* at most maxepochs epochs and ends; it returns the model when some epoch
\* had a validation loss below infinity, and otherwise, no improvement
\* recorded, it ends by raising from the final save.
C5_EndsWithinMaxepochs ==
    /\ [](/\ Len(hist) <= IF pc = "idle" THEN 0 ELSE args.maxepochs
          /\ pc \in {"train", "eval", "sample"} => epoch < args.maxepochs
          /\ pc = "returned" => \E i \in 1..Len(hist) : hist[i].loss < Inf
          /\ (pc = "failed" /\ dataset.lentrainbatches > 0 /\ dataset.lenvalbatches > 0)
                 => /\ \A i \in 1..Len(hist) : hist[i].loss = Inf
                    /\ err = "AttributeError")
    /\ <>FitOver

\* fit returned after running all of its maxepochs = 3 epochs.
C5_Witness ==
    /\ pc = "returned"
    /\ ~stopped
    /\ args.maxepochs = 3
    /\ Len(hist) = 3

\* C6: a fit on a dataset without training batches or without validation
\* batches raises ValueError at once: labels, contextsize, the scorer and
\* the disk are as Model() left them, no batch was processed, no epoch
\* evaluated, nothing generated.
C6_InsufficientDataRejected ==
    (pc # "idle" /\ (dataset.lentrainbatches = 0 \/ dataset.lenvalbatches = 0)) =>
        /\ pc = "failed"
        /\ err = "ValueError"
        /\ labels = <<>>
        /\ contextsize = None
        /\ model = None
        /\ heap = <<>>
        /\ disk = <<>>
        /\ step = 0 /\ global_step = 0 /\ nb_eval_steps = 0
        /\ hist = <<>>
        /\ gpc = "idle"

\* fit was rejected for a dataset with training but no validation batches.
C6_Witness ==
    /\ pc = "failed"
    /\ dataset.lentrainbatches > 0
    /\ dataset.lenvalbatches = 0

\* fit ran on a dataset with a training and a validation batch.
DataSufficient == pc # "idle" /\ dataset.lentrainbatches > 0 /\ dataset.lenvalbatches > 0

\* C11: when fit leaves its epoch loop with no improvement ever recorded
\* (best_model still None), it fails without replacing the active scorer by
\* the unset snapshot and without making a 'best' folder.
C11_NoImprovementFailsCleanly ==
    (DataSufficient /\ FitOver /\ best_model = None) =>
        /\ pc = "failed"
        /\ model # None
        /\ BestDir \notin DOMAIN disk

\* C12: the optimizer step, the scheduler step and the zeroing of the
\* gradients happen together, after every gradient_accumulation_steps-th
\* batch of an epoch and after no other: with s batches of epoch e done, each
\* has happened e * (n \div g) + s \div g times, and the gradients are zero
\* just after such a batch and not after another.
C12_UpdatesEveryAccumulationSteps ==
    (DataSufficient /\ model \in DOMAIN heap /\ pc \in {"train", "eval", "sample", "finish"}) =>
        LET n == dataset.lentrainbatches
            g == args.gradient_accumulation_steps
            updates == epoch * (n \div g) + (step \div g)
        IN /\ heap[model].weights = updates
           /\ scheduler = updates
           /\ global_step = updates
           /\ step > 0 => (heap[model].grads = 0 <=> step % g = 0)

\* The second epoch of a fit with two batches an epoch, accumulated by two,
\* is over: one update an epoch.
C12_Witness ==
    /\ pc = "eval"
    /\ epoch = 1
    /\ dataset.lentrainbatches = 2
    /\ args.gradient_accumulation_steps = 2
    /\ global_step = 2

\* The first k epochs of the history h.
Prefix(h, k) == SubSeq(h, 1, k)

\* What a fit without sample generation does on the losses of h: it stops
\* early at the first epoch that ends patience epochs without improvement,
\* else runs maxepochs epochs, and checkpoints the due epochs it does not
\* stop at.
OutcomeWithoutSample ==
    /\ stopped <=> (hist # <<>> /\ Stagnation(hist) >= args.patience)
    /\ ~stopped => Len(hist) = args.maxepochs
    /\ \A k \in 1..(Len(hist) - 1) : Stagnation(Prefix(hist, k)) < args.patience
    /\ Checkpointed =
           {e \in 0..(Len(hist) - 1) :
                /\ args.checkpointepochs # None
                /\ e % args.checkpointepochs = 0
                /\ ~(stopped /\ e = Len(hist) - 1)}

\* C14: the steps of the sample generation of an epoch change nothing of the
\* scorers, labels, contextsize, best loss, stagnation counter, best
\* snapshot, history or disk, and fit ends at the epoch and with the
\* checkpoints of a fit without sample generation, without an error of it.
C14_SampleIsObservational ==
    /\ [][(pc = "sample" /\ gpc = "loop") =>
              UNCHANGED <<model, heap, labels, contextsize, disk, best_eval_loss,
                          no_improvement, best_model, eval_loss, hist, epoch, step,
                          global_step, scheduler, stopped, args, dataset>>]_vars
    /\ []((DataSufficient /\ FitOver) =>
              /\ err \in {"none", "AttributeError"}
              /\ OutcomeWithoutSample)

\* fit returned after three epochs, each with its sample generated, the last
\* sample a token long.
C14_Witness ==
    /\ pc = "returned"
    /\ Len(hist) = 3
    /\ Checkpointed # {}

\* C15: every training batch finds the scorer in training mode, every
\* validation batch and every step of a generation finds it in evaluation
\* mode, and the validation batches change neither the weights, the
\* accumulated gradients, the scheduler nor the count of updates.
C15_ModeDiscipline ==
    /\ []((DataSufficient /\ pc = "train") => heap[model].training)
    /\ []((DataSufficient /\ pc = "eval") => ~heap[model].training)
    /\ []((DataSufficient /\ pc = "sample" /\ gpc = "loop") => ~heap[model].training)
    /\ [][pc = "eval" =>
              /\ heap'[model'].weights = heap[model].weights
              /\ heap'[model'].grads = heap[model].grads
              /\ scheduler' = scheduler
              /\ global_step' = global_step]_vars

\* The first training batch of the second epoch, which follows an evaluation
\* and a sample generation.
C15_Witness ==
    /\ pc = "train"
    /\ epoch = 1
    /\ step = 0
    /\ Len(hist) = 1
    /\ heap[model].training

\* C16: every optimizer update applies the gradients of exactly
\* gradient_accumulation_steps training batches: the batches accumulated
\* before the one that triggers it are one less than that.
C16_UpdatesOfExactlyAccumulationSteps ==
    [][global_step' = global_step + 1 =>
           heap[model].grads + 1 = args.gradient_accumulation_steps]_vars

\* The epochs whose end has been reached: between the evaluation of an epoch
\* and its end the last entry of hist is of the epoch still running.
EpochsEnded == IF pc = "sample" THEN Prefix(hist, Len(hist) - 1) ELSE hist

\* The last epoch of h (counted from 1) that set the least loss so far, 0 when
\* none did.
LastImprovement(h) ==
    LET S == {i \in 1..Len(h) : ~NonImproving(h, i)}
    IN IF S = {} THEN 0 ELSE CHOOSE i \in S : \A j \in S : j <= i

\* C17: for patience >= 1, at the end of every epoch the best loss is the
\* least eval_loss of the epochs run so far and never increases, the
\* stagnation counter is the number of epochs run since the last one that
\* set it, and the counter is within 0..patience.
C17_BookkeepingInvariant ==
    /\ []((DataSufficient /\ args.patience >= 1) =>
              /\ best_eval_loss = Least({Inf} \cup Losses(EpochsEnded))
              /\ no_improvement = Len(EpochsEnded) - LastImprovement(EpochsEnded)
              /\ no_improvement \in 0..args.patience)
    /\ [][(pc # "idle" /\ args.patience >= 1) =>
              best_eval_loss' <= best_eval_loss]_vars

\* Three epochs ended, the first set the least loss and the two after it did
\* not improve on it.
C17_Witness ==
    /\ args.patience = 2
    /\ pc = "finish"
    /\ Len(hist) = 3
    /\ LastImprovement(hist) = 1
    /\ no_improvement = 2
    /\ hist[2].loss = best_eval_loss

\* C19: for every positive checkpointepochs, once epoch 0 has ended without
\* stopping fit early the checkpoint of epoch 0 is on the disk, so a fit that
\* has begun a second epoch has left a checkpoint folder.
C19_FirstEpochCheckpointed ==
    (DataSufficient /\ args.checkpointepochs # None) =>
        /\ (EpochsEnded # <<>> /\ ~(stopped /\ Len(hist) = 1)) =>
               /\ CheckDir(0) \in DOMAIN disk
               /\ disk[CheckDir(0)].complete
        /\ epoch >= 1 => Checkpointed # {}

\* fit returned after two epochs with checkpointepochs above the number of
\* epochs it ran: the checkpoint of epoch 0 is the only one.
C19_Witness ==
    /\ pc = "returned"
    /\ args.checkpointepochs = MaxCheckpointEpochs
    /\ args.checkpointepochs > Len(hist)
    /\ Len(hist) = 2
    /\ Checkpointed = {0}

Next == FitCall \/ TrainBatch \/ EvalBatch \/ GenStep \/ EpochEnd \/ FitFinish

Spec == Init /\ [][Next]_vars

\* fit runs in one thread that goes on until it returns or raises.
FairSpec == Spec /\ WF_vars(Next)

(***************************************************************************)
(* Model.load and Model.generate called on a model of its own              *)
(***************************************************************************)
\* Lines 218-230: the model is read from a folder of the disk.
Load ==
    /\ pc = "idle"
    /\ gpc = "idle"
    /\ err = "none"
    /\ \E folder \in DOMAIN disk :
        IF disk[folder].complete
        THEN /\ labels' = disk[folder].labels
             /\ contextsize' = disk[folder].contextsize
             /\ model' = WorkingRef
             /\ heap' = Store(heap, WorkingRef, Pretrained(disk[folder].weights))
             /\ origin' = "load"
             /\ err' = err
        ELSE /\ err' = "FileNotFoundError"
             /\ UNCHANGED <<model, labels, contextsize, heap, origin>>
    /\ UNCHANGED <<disk, fitvars, genvars, scheduler, saved>>

\* Lines 163-177: a call of generate; an untrained model has no scorer.
GenerateCall ==
    /\ pc = "idle"
    /\ gpc = "idle"
    /\ err = "none"
    /\ \E ga \in GenArgs :
        IF model = None
        THEN /\ gpc' = "failed"
             /\ err' = "AttributeError"
             /\ gargs' = ga
             /\ caller' = "user"
             /\ tokenized_context' = ga.seed
             /\ UNCHANGED <<heap, generated, gen_i, sampled>>
        ELSE /\ GenEnter("user", ga)
             /\ heap' = SetMode(heap, model, FALSE)
             /\ err' = err
    /\ UNCHANGED <<model, labels, contextsize, disk, fitvars, morevars>>

GenInit ==
    /\ model = None
    /\ labels = <<>>
    /\ contextsize = None
    /\ heap = <<>>
    /\ disk \in {Store(<<>>, BestDir, f) : f \in SavedFolders \cup {EmptyFolder}}
    /\ err = "none"
    /\ scheduler = 0
    /\ origin = "new"
    /\ saved = NoModel
    /\ FitIdle
    /\ GenIdle

(***************************************************************************)
(* Claims about generate                                                   *)
(***************************************************************************)
\* The positions of s at which the END token stands.
EndsIn(s) == {i \in 1..Len(s) : s[i] = END}

\* generate runs on a model that has a scorer.
Generating == gpc # "idle" /\ model # None

\* C7: at every generation step the context about to be handed to
\* tokenizer.encode_bert has at most contextsize tokens, whatever the seed.
C7_ContextWithinContextsize ==
    gpc = "loop" => Len(tokenized_context) <= contextsize

\* C8: END is sampled at most once and last: when it is sampled at step i
\* generate has returned, without a further step, the i tokens sampled before
\* it, in order; the END token is never part of the output.
C8_StopsAtEnd ==
    Generating =>
        /\ EndsIn(generated) = {}
        /\ EndsIn(sampled) \subseteq {Len(sampled)}
        /\ EndsIn(sampled) # {} =>
               /\ gpc = "returned"
               /\ err = "none"
               /\ generated = SubSeq(sampled, 1, Len(sampled) - 1)
               /\ gen_i = Len(sampled) - 1

\* generate returned one token because END was sampled at step 1, before
\* the maxlength of 2 was reached, on a seed of its own.
C8_Witness ==
    /\ gpc = "returned"
    /\ gargs.maxlength = 2
    /\ gargs.seed # <<>>
    /\ Len(sampled) = 2
    /\ sampled[2] = END
    /\ Len(generated) = 1

\* C9: with maxlength = L >= 0 the output never exceeds L tokens and holds no
\* seed token, only the sampled ones; the loop goes on while fewer than L
\* steps are done and no END came; when L steps sampled no END, generate
\* has returned L tokens, and not raised.
C9_LengthBound ==
    Generating =>
        /\ Len(generated) <= gargs.maxlength
        /\ gen_i = Len(generated)
        /\ generated = SubSeq(sampled, 1, Len(generated))
        /\ gpc = "loop" => gen_i < gargs.maxlength /\ ENABLED GenStep
        /\ (gargs.temperature # 0 /\ EndsIn(sampled) = {} /\ gen_i < gargs.maxlength)
               => gpc = "loop"
        /\ (EndsIn(sampled) = {} /\ Len(sampled) = gargs.maxlength) =>
               /\ gpc = "returned"
               /\ err = "none"
               /\ Len(generated) = gargs.maxlength

\* generate returned exactly its maxlength of 2 tokens, on a seed longer
\* than that, no END having been sampled.
C9_Witness ==
    /\ gpc = "returned"
    /\ gargs.maxlength = 2
    /\ Len(gargs.seed) = 3
    /\ EndsIn(sampled) = {}
    /\ Len(generated) = 2

\* C10: a generate called with a temperature of 0 or below is rejected: it
\* samples no token, appends none to the context and does not return.
C10_NonPositiveTemperatureRejected ==
    (Generating /\ gargs.temperature <= 0) =>
        /\ gpc # "returned"
        /\ sampled = <<>>
        /\ generated = <<>>
        /\ tokenized_context = gargs.seed

GenNext == Load \/ GenerateCall \/ GenStep

GenSpec == GenInit /\ [][GenNext]_vars

\* The encoded seed followed by the tokens generated so far.
SeedAndGenerated == gargs.seed \o generated

\* The number of tokens removed from the front of the context so far.
Dropped == Len(SeedAndGenerated) - Len(tokenized_context)

NonEnd(token) == token # END

\* C18: at every step of generate the context is the suffix of its length of
\* the encoded seed followed by the tokens generated so far, a step removes
\* at most one token from its front and appends at most one to the output,
\* and the output is the sequence of sampled tokens other than END.
C18_ContextIsSuffix ==
    /\ [](Generating =>
              /\ Dropped \in 0..Len(SeedAndGenerated)
              /\ tokenized_context =
                     SubSeq(SeedAndGenerated, Dropped + 1, Len(SeedAndGenerated))
              /\ generated = SelectSeq(sampled, NonEnd))
    /\ [][(Generating /\ gpc = "loop") =>
              /\ Dropped' - Dropped \in {0, 1}
              /\ \/ generated' = generated
                 \/ \E token \in 1..2 : generated' = Append(generated, token)]_vars

\* A token was generated from a seed, a token left the front of the context,
\* and END was sampled next.
C18_Witness ==
    /\ Generating
    /\ gpc = "returned"
    /\ gargs.seed # <<>>
    /\ Len(generated) = 1
    /\ Len(sampled) = 2
    /\ Dropped = 1
    /\ tokenized_context # gargs.seed

(***************************************************************************)
(* Model.save called on a model of its own, and the round trip             *)
(***************************************************************************)
\* The folders a user saves to.
UserFolders == {BestDir, CheckDir(0)}

\* Lines 201-215: a call of save; an untrained model has no scorer to save.
SaveCall ==
    /\ pc = "idle"
    /\ gpc = "idle"
    /\ err = "none"
    /\ \E folder \in UserFolders :
        disk' = Save(disk, folder, heap, model, labels, contextsize)
    /\ IF SaveRaises(model)
       THEN err' = "AttributeError" /\ saved' = saved
       ELSE /\ err' = err
            /\ saved' = [weights |-> heap[model].weights, labels |-> labels,
                         contextsize |-> contextsize]
    /\ UNCHANGED <<model, labels, contextsize, heap, fitvars, genvars, scheduler, origin>>

\* A Model as fit returns it (the scorer is a copy made in eval mode, with
\* whatever gradients were accumulated in it), or as Model() builds it.
RoundTripInit ==
    /\ \/ /\ model = WorkingRef
          /\ labels \in LabelSets
          /\ contextsize \in 1..MaxContext
          /\ \E w \in 0..MaxEpochs, g \in 0..1 :
                heap = Store(<<>>, WorkingRef, [Pretrained(w) EXCEPT !.grads = g])
          /\ origin = "fit"
       \/ /\ model = None
          /\ labels = <<>>
          /\ contextsize = None
          /\ heap = <<>>
          /\ origin = "new"
    /\ disk = <<>>
    /\ err = "none"
    /\ scheduler = 0
    /\ saved = NoModel
    /\ FitIdle
    /\ GenIdle

RoundTripNext == SaveCall \/ Load

RoundTripSpec == RoundTripInit /\ [][RoundTripNext]_vars

\* A deterministic stand-in for the scorer with torch.multinomial replaced by
\* the choice of the most probable index: some fixed function of the weights
\* and of the context.
RECURSIVE SumSeq(_)
SumSeq(q) == IF q = <<>> THEN 0 ELSE Head(q) + SumSeq(Tail(q))
ArgmaxIndex(w, context, n) == ((w + SumSeq(context) + Len(context)) % n) + 1

\* Lines 179-199 with that stand-in: the output after at most k more steps.
RECURSIVE Greedy(_, _, _, _, _, _)
Greedy(w, lbls, size, context, out, k) ==
    IF k = 0
    THEN out
    ELSE LET token == lbls[ArgmaxIndex(w, context, Len(lbls))]
         IN IF IsEnd(token)
            THEN out
            ELSE Greedy(w, lbls, size, Slide(context, token, size),
                        Append(out, token), k - 1)

====
